---- MODULE Spec2Model ----
(***************************************************************************)
(* Model of the private-track trybot dispatcher (package main: tester,     *)
(* gcsLiveWriter, getTar, run, commentResults, main) and of the group      *)
(* files of cmd/gomote (createGroup, loadGroup, storeGroup).               *)
(*                                                                         *)
(* Five specifications share the variables:                                *)
(*   SpecGroup gomote group create applied to one group file               *)
(*   SpecFlags main's choice of the builders slice from the -builders flag *)
(*   SpecTar   getTar applied to one HTTP response                         *)
(*   SpecSink  one gcsLiveWriter, its flush goroutine and one client       *)
(*   Spec      main: scheduling loop, tester.run, one goroutine per        *)
(*             builder running runTests; a run's calls on its writer are   *)
(*             steps of the run, the writer's inside is SpecSink's         *)
(***************************************************************************)
EXTENDS Integers, Sequences, FiniteSets, Bags, TLC

VARIABLES
    mode,        \* "oneshot" (-revision given) or "poll"
    builders,    \* the builders slice handed to tester.run
    gcs,         \* t.gcs != nil
    mpc,         \* position of the main goroutine
    polls,       \* ticks of main's one-minute ticker consumed so far
    found,       \* changes the findChanges calls have returned so far
    pending,     \* changes of the current findChanges result not yet tested
    cur,         \* change under test (0: none)
    review,      \* the last ReviewInput sent with gerrit SetReview
    noticed,     \* changes whose commentBeginning succeeded
    fetched,     \* changes whose getTar succeeded
    dispatched,  \* changes whose tester.run returned a result list
    reported,    \* changes whose commentResults succeeded
    gerritCalls, \* requests made to the gerrit client
    runCalls,    \* calls of tester.run
    tarOut,      \* what getTar returned to tester.run
    spawned,     \* iterations of the go-statement loop of tester.run done
    wg,          \* the sync.WaitGroup counter of tester.run
    resultsCh,   \* the buffered channel resultsCh of tester.run
    results,     \* the slice tester.run returned
    run,         \* per launched goroutine: position and locals of runTests
    lw,          \* SpecSink: the gcsLiveWriter, its object and its goroutine
    cpc,         \* SpecSink: position of the sink's client
    tarResp,     \* SpecTar: the HTTP exchange getTar is applied to
    tarCalled,   \* SpecTar: getTar has been applied
    buildersStr, \* SpecFlags: the fields of the -builders flag (<<>>: "")
    grpStored,   \* SpecGroup: the group file before gomote group create
    grpFile,     \* SpecGroup: the group file
    grpAlive,    \* SpecGroup: what InstanceAlive answers for each instance
    grpRet       \* SpecGroup: what createGroup returned ("none": not called)

cfgVars   == <<mode, builders, gcs>>
mainVars  == <<mpc, polls, found, pending, cur, review, noticed, fetched, dispatched,
               reported, gerritCalls, runCalls>>
dispVars  == <<tarOut, spawned, wg, resultsCh, results>>
grpVars   == <<grpStored, grpFile, grpAlive, grpRet>>
auxVars   == <<cpc, tarResp, tarCalled, buildersStr, grpVars>>
vars      == <<cfgVars, mainVars, dispVars, run, lw, auxVars>>

(***************************************************************************)
(* Bounds of the model.                                                    *)
(***************************************************************************)
MaxBuilders == 2   \* longest builders slice
MaxWrites   == 1   \* Write calls Exec makes on a run's output
MaxPolls    == 2   \* firings of main's one-minute ticker
MaxChanges  == 2   \* changes one findChanges call returns
MaxClientWrites == 2  \* SpecSink: Write calls of the client
MaxTicks    == 2   \* SpecSink: firings of the 5-second flush ticker
MaxFlagFields == 2 \* SpecFlags: comma-separated fields of the -builders flag
MaxInstances == 2  \* SpecGroup: instances listed in the stored group file

StatusOK == 200

(***************************************************************************)
(* getTar                                                                  *)
(***************************************************************************)
\* A complete gzip member for the empty input: the ten-byte header, one
\* final empty deflate block (03 00), CRC-32 and ISIZE.
EmptyGzip == <<31, 139, 8, 0, 0, 0, 0, 0, 0, 255, 3, 0, 0, 0, 0, 0, 0, 0, 0, 0>>

\* The login page an SSO portal serves with status 200.
HtmlPage == <<60, 104, 116, 109, 108, 62, 60, 47, 104, 116, 109, 108, 62>>

Replace(s, i, b) == [s EXCEPT ![i] = b]

Bodies ==
    {SubSeq(EmptyGzip, 1, n) : n \in 0..Len(EmptyGzip)}
    \cup {HtmlPage, Replace(EmptyGzip, 1, 80), Replace(EmptyGzip, 2, 75),
          Replace(EmptyGzip, 3, 7), Replace(EmptyGzip, 11, 7),
          SubSeq(EmptyGzip, 1, 10) \o HtmlPage}

\* Whether b is a well-formed gzip stream.  Among Bodies every member carries
\* the empty payload, so the stream is well formed exactly when the header is
\* followed by the empty final block and its trailer.
ValidGzipStream(b) ==
    /\ Len(b) = Len(EmptyGzip)
    /\ b[1] = 31 /\ b[2] = 139 /\ b[3] = 8
    /\ SubSeq(b, 11, Len(b)) = SubSeq(EmptyGzip, 11, Len(EmptyGzip))

\* gzip.NewReader reads and checks the member header only (flags byte 0: no
\* optional header fields); the error it returns, "" for nil.
gzipNewReader(b) ==
    IF Len(b) = 0 THEN "EOF"
    ELSE IF Len(b) < 10 THEN "unexpected EOF"
    ELSE IF b[1] # 31 \/ b[2] # 139 \/ b[3] # 8 THEN "gzip: invalid header"
    ELSE ""

\* An HTTP exchange as getTar sees it.
TarResponses ==
    [reqOK : BOOLEAN, doOK : BOOLEAN, status : {StatusOK, 302, 404},
     readOK : BOOLEAN, body : Bodies]

NoTar == [archive |-> <<>>, err |-> "", gets |-> 0]

\* getTar with one more attempt after a failed status.
getTarRetry(resp) ==
    IF ~resp.reqOK THEN [archive |-> <<>>, err |-> "NewRequest", gets |-> 0]
    ELSE IF ~resp.doOK THEN [archive |-> <<>>, err |-> "Do", gets |-> 1]
    ELSE IF resp.status # StatusOK
        THEN [archive |-> <<>>, err |-> "failed to fetch", gets |-> 2]
    ELSE IF ~resp.readOK THEN [archive |-> <<>>, err |-> "ReadAll", gets |-> 1]
    ELSE IF gzipNewReader(resp.body) # ""
        THEN [archive |-> <<>>, err |-> gzipNewReader(resp.body), gets |-> 1]
    ELSE [archive |-> resp.body, err |-> "", gets |-> 1]

\* The bytes and error getTar returns, and the GET requests it issued.
getTar(resp) ==
    IF ~resp.reqOK THEN [archive |-> <<>>, err |-> "NewRequest", gets |-> 0]
    ELSE IF ~resp.doOK THEN [archive |-> <<>>, err |-> "Do", gets |-> 1]
    ELSE IF resp.status # StatusOK
        THEN [archive |-> <<>>, err |-> "failed to fetch", gets |-> 1]
    ELSE IF ~resp.readOK THEN [archive |-> <<>>, err |-> "ReadAll", gets |-> 1]
    ELSE IF gzipNewReader(resp.body) # ""
        THEN [archive |-> <<>>, err |-> gzipNewReader(resp.body), gets |-> 1]
    ELSE [archive |-> resp.body, err |-> "", gets |-> 1]

(***************************************************************************)
(* gcsLiveWriter                                                           *)
(***************************************************************************)
Runs == 1..MaxBuilders

NoWriter ==
    [open   |-> FALSE,     \* newLiveWriter returned a writer
     exists |-> FALSE,     \* the storage object exists
     obj    |-> <<>>,      \* content of the storage object
     buf    |-> <<>>,      \* buf
     mu     |-> "free",    \* mu: "free" or held by the "flusher"
     stopCh |-> 0,         \* values buffered in stop (capacity 1)
     errCh  |-> <<>>,      \* values buffered in err (capacity 1)
     gpc    |-> "none",    \* position of the flush goroutine
     pend   |-> "",        \* the value the goroutine is about to send on err
     ticks  |-> 0,         \* firings of the ticker so far
     final  |-> "none",    \* outcome of the flush of the stop case
     closeRet |-> "none"]  \* what Close returned ("none": not returned)

\* A write that adds b to what the object holds.
writeAppend(w, b, ok) ==
    IF ok THEN [w EXCEPT !.exists = TRUE, !.obj = @ \o b] ELSE w

\* write(b) of newLiveWriter: a successful upload replaces the object's
\* content by b, a failed one leaves the object as it was.
write(w, b, ok) ==
    IF ok THEN [w EXCEPT !.exists = TRUE, !.obj = b] ELSE w

\* newLiveWriter: the empty object is written first; on failure no writer
\* and no goroutine exist, on success the goroutine waits in its select.
newLiveWriter(ok) ==
    IF ok THEN [write(NoWriter, <<>>, TRUE) EXCEPT !.open = TRUE, !.gpc = "select"]
    ELSE NoWriter

\* gcsLiveWriter.Write: append under mu (blocks while the flusher holds mu).
CanWrite(w) == w.mu = "free"

Write(w, b) == [w EXCEPT !.buf = Append(@, b)]

\* gcsLiveWriter.Close, first statement: g.stop <- true.
CanCloseSend(w) == w.stopCh = 0

CloseSend(w) == [w EXCEPT !.stopCh = 1]

\* gcsLiveWriter.Close, second statement: return <-g.err.
CanCloseRecv(w) == w.errCh # <<>>

CloseRecv(w) == [w EXCEPT !.errCh = Tail(@), !.closeRet = Head(w.errCh)]

lwOthers == <<cfgVars, mainVars, dispVars, run, auxVars>>

\* The goroutine of newLiveWriter, case <-stopCh: take the value, lock mu
\* and start the upload of the whole buffer.
GStop(s) ==
    /\ UNCHANGED lwOthers
    /\ lw[s].gpc = "select" /\ lw[s].stopCh = 1 /\ lw[s].mu = "free"
    /\ lw' = [lw EXCEPT ![s] = [@ EXCEPT !.stopCh = 0, !.mu = "flusher",
                                         !.gpc = "stop_write"]]

\* case <-stopCh: the upload ends; its result is to be sent on errCh.
GStopWrite(s) ==
    /\ UNCHANGED lwOthers
    /\ lw[s].gpc = "stop_write"
    /\ \E ok \in BOOLEAN :
         lw' = [lw EXCEPT ![s] =
                   [write(@, @.buf, ok) EXCEPT
                        !.gpc = "stop_send",
                        !.pend = IF ok THEN "nil" ELSE "finalerr",
                        !.final = IF ok THEN "nil" ELSE "finalerr"]]

\* case <-stopCh: errCh <- result (blocks while errCh is full), then unlock.
GStopSend(s) ==
    /\ UNCHANGED lwOthers
    /\ lw[s].gpc = "stop_send" /\ lw[s].errCh = <<>>
    /\ lw' = [lw EXCEPT ![s] = [@ EXCEPT !.errCh = <<lw[s].pend>>, !.pend = "",
                                         !.mu = "free", !.gpc = "select"]]

\* A ticker case that uploads without mu.
GTickUnlocked(s, maxTicks) ==
    /\ UNCHANGED lwOthers
    /\ lw[s].gpc = "select" /\ lw[s].ticks < maxTicks /\ lw[s].mu = "free"
    /\ lw' = [lw EXCEPT ![s] = [@ EXCEPT !.ticks = @ + 1, !.gpc = "tick_write"]]

\* case <-t.C: the ticker fires (at most maxTicks times), lock mu and start
\* the upload of the whole buffer.
GTick(s, maxTicks) ==
    /\ UNCHANGED lwOthers
    /\ lw[s].gpc = "select" /\ lw[s].ticks < maxTicks /\ lw[s].mu = "free"
    /\ lw' = [lw EXCEPT ![s] = [@ EXCEPT !.ticks = @ + 1, !.mu = "flusher",
                                         !.gpc = "tick_write"]]

\* case <-t.C: the upload ends; success unlocks, failure is logged and is
\* to be sent on errCh with mu still held.
GTickWrite(s) ==
    /\ UNCHANGED lwOthers
    /\ lw[s].gpc = "tick_write"
    /\ \E ok \in BOOLEAN :
         lw' = [lw EXCEPT ![s] =
                   IF ok THEN [write(@, @.buf, TRUE) EXCEPT
                                   !.mu = "free", !.gpc = "select"]
                   ELSE [@ EXCEPT !.gpc = "tick_send", !.pend = "tickerr"]]

\* case <-t.C: errCh <- err (blocks while errCh is full), then unlock.
GTickSend(s) ==
    /\ UNCHANGED lwOthers
    /\ lw[s].gpc = "tick_send" /\ lw[s].errCh = <<>>
    /\ lw' = [lw EXCEPT ![s] = [@ EXCEPT !.errCh = <<lw[s].pend>>, !.pend = "",
                                         !.mu = "free", !.gpc = "select"]]

(***************************************************************************)
(* cmd/gomote: the group file of one name                                  *)
(***************************************************************************)
GomoteIds == {"gomote-a", "gomote-b"}

\* The file <name>.json: absent, not decodable as a groupData, or the
\* encoding of a groupData with the given Instances.
NoFile == [present |-> FALSE, decodable |-> FALSE, instances |-> <<>>]

Garbage == [present |-> TRUE, decodable |-> FALSE, instances |-> <<>>]

Encoded(instances) == [present |-> TRUE, decodable |-> TRUE, instances |-> instances]

GroupFiles ==
    {NoFile, Garbage} \cup
    {Encoded(l) : l \in UNION {[1..n -> GomoteIds] : n \in 0..MaxInstances}}

\* storeGroup(data) on file f.  out is what the file system does: "dir"
\* (groupFilePath, MkdirAll or os.Create fails: the file is as it was),
\* "encode" (os.Create has truncated the file and Encode fails) or "ok".
storeGroup(f, instances, out) ==
    CASE out = "dir" -> [err |-> "storing group", file |-> f]
      [] out = "encode" -> [err |-> "storing group", file |-> Garbage]
      [] OTHER -> [err |-> "", file |-> Encoded(instances)]

\* The loop of loadGroupFromFile over g.Instances: an instance that does
\* not exist is dropped, any other error of InstanceAlive ends the load.
RECURSIVE ping(_, _, _)
ping(instances, alive, kept) ==
    IF instances = <<>> THEN [err |-> "", instances |-> kept]
    ELSE IF alive[Head(instances)] = "gone" THEN ping(Tail(instances), alive, kept)
    ELSE IF alive[Head(instances)] = "error"
        THEN [err |-> "InstanceAlive", instances |-> <<>>]
    ELSE ping(Tail(instances), alive, Append(kept, Head(instances)))

\* loadGroup(name): open, decode, ping and prune the instances, store the
\* pruned group; the error of that store is returned with the group.
loadGroup(f, alive, out) ==
    IF ~f.present THEN [err |-> "not exist", file |-> f]
    ELSE IF ~f.decodable THEN [err |-> "decode", file |-> f]
    ELSE IF ping(f.instances, alive, <<>>).err # ""
        THEN [err |-> ping(f.instances, alive, <<>>).err, file |-> f]
    ELSE storeGroup(f, ping(f.instances, alive, <<>>).instances, out)

\* createGroup(name): "already exists" when loadGroup returned no error,
\* else the empty group is stored, whatever the error was.
createGroup(f, alive, out1, out2) ==
    IF loadGroup(f, alive, out1).err = ""
    THEN [err |-> "already exists", file |-> loadGroup(f, alive, out1).file]
    ELSE storeGroup(loadGroup(f, alive, out1).file, <<>>, out2)

groupOthers == <<cfgVars, mainVars, dispVars, run, lw, cpc, tarResp, tarCalled,
                 buildersStr>>

(***************************************************************************)
(* Values of the variables a specification does not use.                   *)
(***************************************************************************)
NoRun ==
    [pc      |-> "idle",   \* position in runTests
     bt      |-> "",       \* builderType
     log     |-> "",       \* the logURL runTests returns
     ok      |-> FALSE,    \* the bool runTests returns
     failed  |-> FALSE,    \* a call of runTests returned an error
     created |-> 0,        \* successful CreateBuildletWithStatus calls
     closes  |-> 0,        \* c.Close calls
     sink    |-> "none",   \* gcsWriter: "none", "open" or "closed"
     sinkCloses |-> 0,     \* gcsWriter.Close calls
     writes  |-> 0]        \* Write calls the running Exec made on output

NoReview == [change |-> 0, kind |-> "none", state |-> "", label |-> 0,
             rows |-> <<>>, ok |-> FALSE]

MainIdle ==
    /\ mpc = "off" /\ polls = 0 /\ found = 0 /\ pending = <<>> /\ cur = 0
    /\ review = NoReview
    /\ noticed = {} /\ fetched = {} /\ dispatched = {} /\ reported = {}
    /\ gerritCalls = 0 /\ runCalls = 0
    /\ mode = "oneshot" /\ builders = <<"linux-amd64">> /\ gcs = TRUE

DispIdle ==
    /\ tarOut = NoTar /\ spawned = 0 /\ wg = 0
    /\ resultsCh = <<>> /\ results = <<>>
    /\ run = [r \in Runs |-> NoRun]

SinkIdle == lw = [r \in Runs |-> NoWriter] /\ cpc = "off"

NoResp == [reqOK |-> TRUE, doOK |-> TRUE, status |-> StatusOK, readOK |-> TRUE,
           body |-> <<>>]

TarIdle == tarResp = NoResp /\ tarCalled = FALSE

FlagsIdle == buildersStr = <<>>

GroupIdle ==
    /\ grpStored = NoFile /\ grpFile = NoFile
    /\ grpAlive = [i \in GomoteIds |-> "alive"]
    /\ grpRet = "none"

(***************************************************************************)
(* SpecFlags: main from flag.Parse to the go statements of tester.run, for *)
(* one value of the -builders flag.                                        *)
(***************************************************************************)
allowedBuilders ==
    {"js-wasm", "linux-386", "linux-386-longtest", "linux-amd64",
     "linux-amd64-longtest", "linux-amd64-bullseye", "darwin-amd64-12_0",
     "darwin-arm64-12", "windows-386-2012", "windows-amd64-2016",
     "windows-arm64-11"}

firstClassBuilders ==
    <<"linux-386-longtest", "linux-amd64-longtest", "linux-arm-aws",
      "linux-arm64-aws", "darwin-amd64-12_0", "darwin-arm64-12",
      "windows-386-2012", "windows-amd64-longtest">>

\* The names a field of the -builders flag is drawn from: the allowed
\* builders, the first-class builders, the empty field and another name.
FlagNames ==
    allowedBuilders \cup {firstClassBuilders[i] : i \in DOMAIN firstClassBuilders}
    \cup {"", "plan9-arm"}

\* The values of the flag, as strings.Split(*buildersStr, ",") cuts them;
\* <<>> stands for the empty string, which has no field <<"">> of its own.
FlagValues ==
    {f \in UNION {[1..n -> FlagNames] : n \in 0..MaxFlagFields} : f # <<"">>}

\* main's builders slice: the fields of a non-empty flag, each checked
\* against allowedBuilders (log.Fatalf on the first that is not allowed),
\* else firstClassBuilders as it stands.
chooseBuilders(fields) ==
    IF fields # <<>>
    THEN IF \E i \in DOMAIN fields : fields[i] \notin allowedBuilders
         THEN [fatal |-> TRUE, builders |-> <<>>]
         ELSE [fatal |-> FALSE, builders |-> fields]
    ELSE [fatal |-> FALSE, builders |-> firstClassBuilders]

flagsOthers == <<mode, gcs, polls, found, pending, cur, review, noticed, fetched,
                 dispatched, reported, gerritCalls, runCalls, tarOut, wg,
                 resultsCh, results, run, lw, auxVars>>

InitFlags ==
    /\ DispIdle /\ SinkIdle /\ TarIdle /\ GroupIdle
    /\ polls = 0 /\ found = 0 /\ pending = <<>> /\ cur = 0
    /\ review = NoReview
    /\ noticed = {} /\ fetched = {} /\ dispatched = {} /\ reported = {}
    /\ gerritCalls = 0 /\ runCalls = 0
    /\ mode = "oneshot" /\ gcs = TRUE
    /\ builders = <<>>
    /\ buildersStr \in FlagValues
    /\ mpc = "flags"

\* main, the choice of builders.
FlagsChoose ==
    /\ mpc = "flags"
    /\ builders' = chooseBuilders(buildersStr).builders
    /\ mpc' = IF chooseBuilders(buildersStr).fatal THEN "fatal" ELSE "spawn"
    /\ spawned' = 0
    /\ UNCHANGED flagsOthers

\* tester.run, one iteration of the loop over builders: the go statement
\* that starts runTests for builders[spawned + 1].
FlagsSpawn ==
    /\ mpc = "spawn" /\ spawned < Len(builders)
    /\ spawned' = spawned + 1
    /\ mpc' = IF spawned + 1 = Len(builders) THEN "wait" ELSE "spawn"
    /\ UNCHANGED <<builders, flagsOthers>>

NextFlags ==
    \/ FlagsChoose
    \/ FlagsSpawn

SpecFlags == InitFlags /\ [][NextFlags]_vars

(***************************************************************************)
(* SpecGroup: gomote group create <name> run once on a group file.         *)
(***************************************************************************)
InitGroup ==
    /\ MainIdle /\ DispIdle /\ SinkIdle /\ TarIdle /\ FlagsIdle
    /\ grpStored \in GroupFiles
    /\ grpFile = grpStored
    /\ grpAlive \in [GomoteIds -> {"alive", "gone", "error"}]
    /\ grpRet = "none"

GroupCreate ==
    /\ grpRet = "none"
    /\ \E out1, out2 \in {"ok", "dir", "encode"} :
         /\ grpFile' = createGroup(grpFile, grpAlive, out1, out2).file
         /\ grpRet' = createGroup(grpFile, grpAlive, out1, out2).err
    /\ UNCHANGED <<grpStored, grpAlive, groupOthers>>

NextGroup ==
    \/ GroupCreate

SpecGroup == InitGroup /\ [][NextGroup]_vars

(***************************************************************************)
(* SpecTar: getTar applied to one HTTP exchange.                           *)
(***************************************************************************)
InitTar ==
    /\ MainIdle /\ DispIdle /\ SinkIdle /\ FlagsIdle /\ GroupIdle
    /\ tarResp \in TarResponses
    /\ tarCalled = FALSE

TarCall ==
    /\ ~tarCalled
    /\ tarCalled' = TRUE
    /\ tarOut' = getTar(tarResp)
    /\ UNCHANGED <<cfgVars, mainVars, spawned, wg, resultsCh, results, run, lw,
                   cpc, tarResp, buildersStr, grpVars>>

NextTar == TarCall

SpecTar == InitTar /\ [][NextTar]_vars

(***************************************************************************)
(* SpecSink: one gcsLiveWriter (sink 1) used by one client that creates    *)
(* it, writes and closes it once.                                          *)
(***************************************************************************)
sinkOthers == <<cfgVars, mainVars, dispVars, run, tarResp, tarCalled, buildersStr,
                grpVars>>

InitSink ==
    /\ MainIdle /\ DispIdle /\ TarIdle /\ FlagsIdle /\ GroupIdle
    /\ lw = [r \in Runs |-> NoWriter]
    /\ cpc = "new"

ClientNew ==
    /\ cpc = "new"
    /\ \E ok \in BOOLEAN :
         /\ lw' = [lw EXCEPT ![1] = newLiveWriter(ok)]
         /\ cpc' = IF ok THEN "writing" ELSE "failed"
    /\ UNCHANGED sinkOthers

ClientWrite ==
    /\ cpc = "writing" /\ Len(lw[1].buf) < MaxClientWrites
    /\ CanWrite(lw[1])
    /\ lw' = [lw EXCEPT ![1] = Write(@, Len(@.buf) + 1)]
    /\ UNCHANGED <<cpc, sinkOthers>>

ClientCloseSend ==
    /\ cpc = "writing" /\ CanCloseSend(lw[1])
    /\ lw' = [lw EXCEPT ![1] = CloseSend(@)]
    /\ cpc' = "closing"
    /\ UNCHANGED sinkOthers

ClientCloseRecv ==
    /\ cpc = "closing" /\ CanCloseRecv(lw[1])
    /\ lw' = [lw EXCEPT ![1] = CloseRecv(@)]
    /\ cpc' = "closed"
    /\ UNCHANGED sinkOthers

NextSink ==
    \/ ClientNew
    \/ ClientWrite
    \/ ClientCloseSend
    \/ ClientCloseRecv
    \/ GStop(1)
    \/ GStopWrite(1)
    \/ GStopSend(1)
    \/ GTick(1, MaxTicks)
    \/ GTickWrite(1)
    \/ GTickSend(1)

SpecSink == InitSink /\ [][NextSink]_vars

(***************************************************************************)
(* tester.runTests, one goroutine per entry of builders.  The calls on the *)
(* run's gcsLiveWriter (newLiveWriter, Write, Close) are steps of the run; *)
(* what happens inside the writer is the subject of SpecSink.              *)
(***************************************************************************)
Launched == 1..Len(builders)

\* The process is running: log.Fatal and the return of main end every goroutine.
Alive == mpc \notin {"fatal", "exit"}

runOthers == <<cfgVars, mainVars, tarOut, spawned, results, lw, auxVars>>

\* A return statement that leaves an open gcsWriter behind: c.Close is the
\* only deferred call.
ReturnNoSinkClose(r, err, log, ok) ==
    run' = [run EXCEPT ![r] = [@ EXCEPT !.failed = err,
               !.log = log, !.ok = ok, !.writes = 0, !.pc = "teardown"]]

\* A return statement of runTests after the buildlet was created, err
\* telling whether it is the return of an `if err != nil` branch: the
\* results are set and the deferred calls run, gcsWriter.Close first (when
\* the writer was created) and c.Close after it.
Return(r, err, log, ok) ==
    run' = [run EXCEPT ![r] = [@ EXCEPT !.failed = err,
               !.log = log, !.ok = ok, !.writes = 0,
               !.pc = IF run[r].sink = "open" THEN "sinkclose" ELSE "teardown"]]

\* A runTests that defers c.Close() before it looks at the error of
\* CreateBuildletWithStatus.
CreateDeferFirst(r) ==
    /\ Alive /\ run[r].pc = "create"
    /\ \E out \in {"fail", "unknown", "bootstrap", "bootstrapped"} :
         run' = [run EXCEPT ![r] =
            CASE out = "fail" -> [@ EXCEPT !.failed = TRUE, !.log = "",
                                           !.ok = FALSE, !.pc = "teardown"]
              [] out = "unknown" ->
                    [@ EXCEPT !.created = @ + 1, !.failed = TRUE, !.log = "",
                              !.ok = FALSE, !.pc = "teardown"]
              [] out = "bootstrap" -> [@ EXCEPT !.created = @ + 1, !.pc = "bootstrap"]
              [] OTHER -> [@ EXCEPT !.created = @ + 1, !.pc = "puttar"]]
    /\ UNCHANGED <<runOthers, wg, resultsCh>>

\* CreateBuildletWithStatus and, on success, the lookup of the builder's
\* configuration and of its bootstrap URL.
Create(r) ==
    /\ Alive /\ run[r].pc = "create"
    /\ \E out \in {"fail", "unknown", "bootstrap", "bootstrapped"} :
         run' = [run EXCEPT ![r] =
            CASE out = "fail" -> [@ EXCEPT !.failed = TRUE, !.log = "",
                                           !.ok = FALSE, !.pc = "emit"]
              [] out = "unknown" ->
                    [@ EXCEPT !.created = @ + 1, !.failed = TRUE, !.log = "",
                              !.ok = FALSE, !.pc = "teardown"]
              [] out = "bootstrap" -> [@ EXCEPT !.created = @ + 1, !.pc = "bootstrap"]
              [] OTHER -> [@ EXCEPT !.created = @ + 1, !.pc = "puttar"]]
    /\ UNCHANGED <<runOthers, wg, resultsCh>>

\* c.PutTarFromURL(bootstrapURL, "go1.4")
Bootstrap(r) ==
    /\ Alive /\ run[r].pc = "bootstrap"
    /\ \E ok \in BOOLEAN :
         IF ok THEN run' = [run EXCEPT ![r].pc = "puttar"]
         ELSE Return(r, TRUE, "", FALSE)
    /\ UNCHANGED <<runOthers, wg, resultsCh>>

\* A runTests that notes the error of c.PutTar and goes on.
PutTarIgnoringErr(r) ==
    /\ Alive /\ run[r].pc = "puttar"
    /\ \E ok \in BOOLEAN :
         run' = [run EXCEPT ![r] = [@ EXCEPT !.failed = ~ok, !.pc = "putversion"]]
    /\ UNCHANGED <<runOthers, wg, resultsCh>>

\* c.PutTar(archive, "go")
PutTar(r) ==
    /\ Alive /\ run[r].pc = "puttar"
    /\ \E ok \in BOOLEAN :
         IF ok THEN run' = [run EXCEPT ![r].pc = "putversion"]
         ELSE Return(r, TRUE, "", FALSE)
    /\ UNCHANGED <<runOthers, wg, resultsCh>>

\* c.Put("devel "+rev, "go/VERSION")
PutVersion(r) ==
    /\ Alive /\ run[r].pc = "putversion"
    /\ \E ok \in BOOLEAN :
         IF ok THEN run' = [run EXCEPT ![r].pc = "output"]
         ELSE Return(r, TRUE, "", FALSE)
    /\ UNCHANGED <<runOthers, wg, resultsCh>>

\* The choice of output: newLiveWriter when t.gcs is set (its failure ends
\* the run, its success defers gcsWriter.Close), else a localWriter.
Output(r) ==
    /\ Alive /\ run[r].pc = "output"
    /\ IF gcs
       THEN \E ok \in BOOLEAN :
              IF ok THEN run' = [run EXCEPT ![r] = [@ EXCEPT !.sink = "open",
                                                            !.pc = "workdir"]]
              ELSE Return(r, TRUE, "", FALSE)
       ELSE run' = [run EXCEPT ![r].pc = "workdir"]
    /\ UNCHANGED <<runOthers, wg, resultsCh>>

\* c.WorkDir
WorkDir(r) ==
    /\ Alive /\ run[r].pc = "workdir"
    /\ \E ok \in BOOLEAN :
         IF ok THEN run' = [run EXCEPT ![r].pc = "exec"]
         ELSE Return(r, TRUE, "", FALSE)
    /\ UNCHANGED <<runOthers, wg, resultsCh>>

\* c.Exec streams a chunk of all.bash output: output.Write returns.
ExecWrite(r) ==
    /\ Alive /\ run[r].pc = "exec" /\ run[r].writes < MaxWrites
    /\ run' = [run EXCEPT ![r].writes = @ + 1]
    /\ UNCHANGED <<runOthers, wg, resultsCh>>

\* The logURL of a run that reached Exec.
logURL == IF gcs THEN "https://storage.cloud.google.com/" ELSE ""

\* A runTests that checks execErr only.
ExecReturnIgnoringRemoteErr(r) ==
    /\ Alive /\ run[r].pc = "exec"
    /\ \E out \in {"pass", "remoteErr", "execErr"} :
         IF out = "execErr" THEN Return(r, TRUE, logURL, FALSE)
         ELSE Return(r, out = "remoteErr", logURL, TRUE)
    /\ UNCHANGED <<runOthers, wg, resultsCh>>

\* c.Exec returns (remoteErr, execErr): either error ends the run as
\* failed, execErr looked at first.
ExecReturn(r) ==
    /\ Alive /\ run[r].pc = "exec"
    /\ \E out \in {"pass", "remoteErr", "execErr"} :
         IF out = "execErr" THEN Return(r, TRUE, logURL, FALSE)
         ELSE IF out = "remoteErr" THEN Return(r, TRUE, logURL, FALSE)
         ELSE Return(r, FALSE, logURL, TRUE)
    /\ UNCHANGED <<runOthers, wg, resultsCh>>

\* deferred gcsWriter.Close() returns err; an error is logged only.
SinkClose(r) ==
    /\ Alive /\ run[r].pc = "sinkclose"
    /\ \E err \in BOOLEAN :
         run' = [run EXCEPT ![r] = [@ EXCEPT !.sinkCloses = @ + 1,
                                            !.sink = "closed", !.pc = "teardown"]]
    /\ UNCHANGED <<runOthers, wg, resultsCh>>

\* runTests without the deferred c.Close().
TeardownSkipped(r) ==
    /\ Alive /\ run[r].pc = "teardown"
    /\ run' = [run EXCEPT ![r].pc = "emit"]
    /\ UNCHANGED <<runOthers, wg, resultsCh>>

\* deferred c.Close() returns err; an error is logged only.
Teardown(r) ==
    /\ Alive /\ run[r].pc = "teardown"
    /\ \E err \in BOOLEAN :
         run' = [run EXCEPT ![r] = [@ EXCEPT !.closes = @ + 1, !.pc = "emit"]]
    /\ UNCHANGED <<runOthers, wg, resultsCh>>

\* A goroutine that sends a result only for a run that passed.
EmitPassed(r) ==
    /\ Alive /\ run[r].pc = "emit"
    /\ resultsCh' = IF run[r].ok
                    THEN Append(resultsCh, [builderType |-> run[r].bt,
                                            logURL |-> run[r].log,
                                            succeeded |-> run[r].ok])
                    ELSE resultsCh
    /\ wg' = wg - 1
    /\ run' = [run EXCEPT ![r].pc = "done"]
    /\ UNCHANGED runOthers

\* The goroutine of tester.run after runTests returned:
\* resultsCh <- result{bt, log, succeeded} (capacity len(builders)), then
\* the deferred wg.Done().
Emit(r) ==
    /\ Alive /\ run[r].pc = "emit"
    /\ Len(resultsCh) < Len(builders)
    /\ resultsCh' = Append(resultsCh, [builderType |-> run[r].bt,
                                       logURL |-> run[r].log,
                                       succeeded |-> run[r].ok])
    /\ wg' = wg - 1
    /\ run' = [run EXCEPT ![r].pc = "done"]
    /\ UNCHANGED runOthers

(***************************************************************************)
(* tester.run                                                              *)
(***************************************************************************)
\* The HTTP exchanges the archive server answers tester.run with.
MainResponses ==
    {resp \in TarResponses :
        /\ resp.reqOK /\ resp.readOK
        /\ resp.body \in {EmptyGzip, HtmlPage}
        /\ resp.status \in {StatusOK, 404}
        /\ (~resp.doOK => resp.status = StatusOK /\ resp.body = HtmlPage)}

\* A tester.run that goes on to the runs whatever getTar returned.
afterGetTarIgnoringErr(err) == "spawn"

\* Where main is after getTar returned err to tester.run: on an error run
\* returns it and both callers in main end the process with log.Fatal.
afterGetTar(err) == IF err = "" THEN "spawn" ELSE "fatal"

\* tester.run up to the first go statement.
RunStart ==
    /\ mpc = "run"
    /\ runCalls' = runCalls + 1
    /\ \E resp \in MainResponses :
         /\ tarOut' = getTar(resp)
         /\ mpc' = afterGetTar(getTar(resp).err)
         /\ fetched' = IF getTar(resp).err = "" THEN fetched \cup {cur} ELSE fetched
    /\ spawned' = 0 /\ wg' = 0 /\ resultsCh' = <<>> /\ results' = <<>>
    /\ run' = [r \in Runs |-> NoRun]
    /\ UNCHANGED <<cfgVars, polls, found, pending, cur, review, noticed, dispatched,
                   reported, gerritCalls, lw, auxVars>>

\* One iteration of the loop over builders: wg.Add(1) and the go statement.
Spawn ==
    /\ mpc = "spawn" /\ spawned < Len(builders)
    /\ wg' = wg + 1
    /\ spawned' = spawned + 1
    /\ run' = [run EXCEPT ![spawned + 1] =
                  [NoRun EXCEPT !.pc = "create", !.bt = builders[spawned + 1]]]
    /\ mpc' = IF spawned + 1 = Len(builders) THEN "wait" ELSE "spawn"
    /\ UNCHANGED <<cfgVars, polls, found, pending, cur, review, noticed, fetched,
                   dispatched, reported, gerritCalls, runCalls, tarOut,
                   resultsCh, results, lw, auxVars>>

\* A wait for the first result instead of the WaitGroup.
WaitFirst == resultsCh # <<>>

\* wg.Wait() returns.
WaitDone == wg = 0

\* A main that reports in both modes.
afterRunReporting(m) == "report"

\* Where main is after tester.run returned a result list: one-shot mode
\* drops it and main returns, poll mode goes on to commentResults.
afterRun(m) == IF m = "oneshot" THEN "exit" ELSE "report"

\* wg.Wait(), close(resultsCh), the drain of resultsCh and the return.
RunReturn ==
    /\ mpc = "wait" /\ WaitDone
    /\ results' = resultsCh
    /\ resultsCh' = <<>>
    /\ dispatched' = dispatched \cup {cur}
    /\ mpc' = afterRun(mode)
    /\ UNCHANGED <<cfgVars, polls, found, pending, cur, review, noticed, fetched,
                   reported, gerritCalls, runCalls, tarOut, spawned, wg, run, lw,
                   auxVars>>

(***************************************************************************)
(* commentBeginning, commentResults, main                                  *)
(***************************************************************************)
\* A loop in which the last result alone decides state and label.
RECURSIVE commentLoopLast(_, _, _)
commentLoopLast(res, i, acc) ==
    IF i > Len(res) THEN acc
    ELSE commentLoopLast(res, i + 1,
            [state |-> IF res[i].succeeded THEN "succeeded" ELSE "failed",
             label |-> IF res[i].succeeded THEN 1 ELSE -1,
             rows  |-> Append(acc.rows,
                         [builderType |-> res[i].builderType,
                          s |-> IF res[i].succeeded THEN "pass" ELSE "failed",
                          logURL |-> res[i].logURL])])

\* A loop that marks a row with the aggregate state instead of its result.
RECURSIVE commentLoopAggregate(_, _, _)
commentLoopAggregate(res, i, acc) ==
    IF i > Len(res) THEN acc
    ELSE commentLoopAggregate(res, i + 1,
            [state |-> IF res[i].succeeded THEN acc.state ELSE "failed",
             label |-> IF res[i].succeeded THEN acc.label ELSE -1,
             rows  |-> Append(acc.rows,
                         [builderType |-> res[i].builderType,
                          s |-> IF res[i].succeeded /\ acc.state = "succeeded"
                                THEN "pass" ELSE "failed",
                          logURL |-> res[i].logURL])])

\* The loop of commentResults over results[i..]: acc holds state, label and
\* the rows written to the tabwriter so far.
RECURSIVE commentLoop(_, _, _)
commentLoop(res, i, acc) ==
    IF i > Len(res) THEN acc
    ELSE commentLoop(res, i + 1,
            [state |-> IF res[i].succeeded THEN acc.state ELSE "failed",
             label |-> IF res[i].succeeded THEN acc.label ELSE -1,
             rows  |-> Append(acc.rows,
                         [builderType |-> res[i].builderType,
                          s |-> IF res[i].succeeded THEN "pass" ELSE "failed",
                          logURL |-> res[i].logURL])])

\* The message state, the TryBot-Result label and the table rows that
\* commentResults sends for res.
commentResults(res) ==
    commentLoop(res, 1, [state |-> "succeeded", label |-> 1, rows |-> <<>>])

mainOthers == <<cfgVars, dispVars, run, lw, auxVars>>

\* The k changes a findChanges call returns after n changes were returned
\* by earlier calls (a change that was reported carries a TryBot-Result
\* label and is not returned again).
Found(n, k) == [i \in 1..k |-> n + i]

\* main, poll mode: the ticker fires and findChanges is called; an error
\* is fatal, an empty list waits for the next tick.
Poll ==
    /\ mpc = "ticker" /\ polls < MaxPolls
    /\ polls' = polls + 1
    /\ gerritCalls' = gerritCalls + 1
    /\ \/ /\ mpc' = "fatal"
          /\ UNCHANGED <<found, pending, cur>>
       \/ \E k \in 0..MaxChanges :
            /\ found' = found + k
            /\ IF k = 0 THEN mpc' = "ticker" /\ UNCHANGED <<pending, cur>>
               ELSE /\ mpc' = "begin"
                    /\ cur' = Head(Found(found, k))
                    /\ pending' = Tail(Found(found, k))
    /\ UNCHANGED <<review, noticed, fetched, dispatched, reported, runCalls,
                   mainOthers>>

\* A main that logs a failed commentBeginning and goes on.
afterBeginningLogged(ok) == "run"

\* Where main is after commentBeginning: an error is fatal.
afterBeginning(ok) == IF ok THEN "run" ELSE "fatal"

\* commentBeginning(change).
CommentBeginning ==
    /\ mpc = "begin"
    /\ gerritCalls' = gerritCalls + 1
    /\ \E ok \in BOOLEAN :
         /\ review' = [change |-> cur, kind |-> "beginning", state |-> "",
                       label |-> 0, rows |-> <<>>, ok |-> ok]
         /\ mpc' = afterBeginning(ok)
         /\ noticed' = IF ok THEN noticed \cup {cur} ELSE noticed
    /\ UNCHANGED <<polls, found, pending, cur, fetched, dispatched, reported,
                   runCalls, mainOthers>>

\* commentResults(change, results); an error is fatal, success moves to the
\* next change of the list or back to the ticker.
CommentResults ==
    /\ mpc = "report"
    /\ gerritCalls' = gerritCalls + 1
    /\ \E ok \in BOOLEAN :
         /\ review' = [change |-> cur, kind |-> "results",
                       state |-> commentResults(results).state,
                       label |-> commentResults(results).label,
                       rows |-> commentResults(results).rows, ok |-> ok]
         /\ reported' = IF ok THEN reported \cup {cur} ELSE reported
         /\ IF ~ok THEN mpc' = "fatal" /\ UNCHANGED <<pending, cur>>
            ELSE IF pending = <<>> THEN mpc' = "ticker" /\ UNCHANGED <<pending, cur>>
            ELSE mpc' = "begin" /\ cur' = Head(pending) /\ pending' = Tail(pending)
    /\ UNCHANGED <<polls, found, noticed, fetched, dispatched, runCalls,
                   mainOthers>>

(***************************************************************************)
(* Spec: the program after flag parsing and client construction.           *)
(***************************************************************************)
\* The builders slices of the model: prefixes of two lists, one of them
\* naming a builder type twice.
BuilderLists ==
    {SubSeq(l, 1, n) : n \in 1..MaxBuilders,
                       l \in {[i \in Runs |-> IF i = 2 THEN "js-wasm" ELSE "linux-amd64"],
                              [i \in Runs |-> IF i = 3 THEN "js-wasm" ELSE "linux-amd64"]}}

Init ==
    /\ mode \in {"oneshot", "poll"}
    /\ builders \in BuilderLists
    /\ gcs \in BOOLEAN
    /\ mpc = IF mode = "oneshot" THEN "run" ELSE "ticker"
    /\ polls = 0 /\ found = 0 /\ pending = <<>> /\ cur = 0
    /\ review = NoReview
    /\ noticed = {} /\ fetched = {} /\ dispatched = {} /\ reported = {}
    /\ gerritCalls = 0 /\ runCalls = 0
    /\ DispIdle /\ TarIdle /\ SinkIdle /\ FlagsIdle /\ GroupIdle

Next ==
    \/ Poll
    \/ CommentBeginning
    \/ RunStart
    \/ Spawn
    \/ RunReturn
    \/ CommentResults
    \/ \E r \in Launched : Create(r)
    \/ \E r \in Launched : Bootstrap(r)
    \/ \E r \in Launched : PutTar(r)
    \/ \E r \in Launched : PutVersion(r)
    \/ \E r \in Launched : Output(r)
    \/ \E r \in Launched : WorkDir(r)
    \/ \E r \in Launched : ExecWrite(r)
    \/ \E r \in Launched : ExecReturn(r)
    \/ \E r \in Launched : SinkClose(r)
    \/ \E r \in Launched : Teardown(r)
    \/ \E r \in Launched : Emit(r)

Spec == Init /\ [][Next]_vars

(***************************************************************************)
(* Properties                                                              *)
(***************************************************************************)
\* The bag of the elements of a sequence.
BagOf(seq) ==
    [x \in {seq[i] : i \in DOMAIN seq} |-> Cardinality({i \in DOMAIN seq : seq[i] = x})]

\* tester.run has returned a result list for the change under test (for the
\* revision, in one-shot mode) and no later call of it has started.
Returned == cur \in dispatched

AllDone == \A r \in Launched : run[r].pc = "done"

\* C1: a dispatch whose archive fetch succeeded returns exactly one result
\* per entry of builders, each carrying that entry's builder type, whatever
\* failed in the runs.
C1_OneResultPerBuilder ==
    Returned =>
        /\ Len(results) = Len(builders)
        /\ BagOf([i \in DOMAIN results |-> results[i].builderType]) = BagOf(builders)

\* C1 witness: a returned list of two results, one of a run whose buildlet
\* could not be created and one of a run that passed.
C1_Witness ==
    /\ Returned /\ Len(builders) = 2
    /\ \E r \in Launched : run[r].created = 0
    /\ \E i \in DOMAIN results : results[i].succeeded

\* C2: a run makes at most one buildlet, closes no buildlet it did not
\* make, and has called c.Close exactly once for the buildlet it made when
\* runTests has returned; so creates equal teardowns once all runs finished.
C2_TeardownOnce ==
    \A r \in Launched :
        /\ run[r].created <= 1
        /\ run[r].closes <= run[r].created
        /\ run[r].pc \in {"emit", "done"} => run[r].closes = run[r].created

\* C2 witness: all runs have finished, one after a failure that followed
\* the creation of its buildlet and one after its tests passed, and both
\* buildlets were closed.
C2_Witness ==
    /\ AllDone /\ mpc = "wait"
    /\ \E r \in Launched : run[r].created = 1 /\ ~run[r].ok /\ run[r].closes = 1
    /\ \E r \in Launched : run[r].created = 1 /\ run[r].ok /\ run[r].closes = 1

\* C3: the final report's label is +1 and its state "succeeded" exactly
\* when every result succeeded, and -1 and "failed" when one did not,
\* wherever in the list the failed result stands.
C3_LabelIffAllSucceeded ==
    review.kind = "results" =>
        IF \A i \in DOMAIN results : results[i].succeeded
        THEN review.label = 1 /\ review.state = "succeeded"
        ELSE review.label = -1 /\ review.state = "failed"

\* C3 witness: a report over two results of which the first failed and the
\* last succeeded.
C3_Witness ==
    /\ review.kind = "results" /\ Len(results) = 2
    /\ ~results[1].succeeded /\ results[2].succeeded
    /\ review.label = -1

\* C4: once Close has returned, the final flush of the whole buffer has been
\* performed and, when storage accepted it, the object holds the whole
\* buffer.
C4_CloseAfterFinalFlush ==
    cpc = "closed" =>
        /\ lw[1].final # "none"
        /\ lw[1].final = "nil" => lw[1].obj = lw[1].buf

\* C5: when tester.run has returned, every goroutine it launched has ended,
\* after the teardown of its buildlet, and its result is in the list.
C5_ReturnAfterAllRuns ==
    Returned =>
        /\ spawned = Len(builders) /\ wg = 0
        /\ \A r \in Launched :
             /\ run[r].pc = "done"
             /\ run[r].closes = run[r].created
             /\ \E i \in DOMAIN results :
                  results[i] = [builderType |-> run[r].bt, logURL |-> run[r].log,
                                succeeded |-> run[r].ok]
        /\ Len(results) = spawned

\* C5 witness: tester.run has returned the results of two runs that both
\* closed a buildlet.
C5_Witness ==
    /\ Returned /\ Len(builders) = 2
    /\ \A r \in Launched : run[r].closes = 1

\* C6: when getTar returned an error, the process has ended with no run
\* started: no goroutine launched, no buildlet created, no result.
C6_FetchErrorStartsNothing ==
    tarOut.err # "" =>
        /\ mpc = "fatal"
        /\ spawned = 0 /\ wg = 0
        /\ \A r \in Runs : run[r] = NoRun
        /\ resultsCh = <<>> /\ results = <<>>
        /\ cur \notin fetched /\ cur \notin dispatched /\ cur \notin reported

\* C6 witness: the archive server answered 200 with a login page.
C6_Witness == tarOut.err = "gzip: invalid header" /\ mpc = "fatal" /\ runCalls = 2

\* C7: a final report that was posted has one row per entry of builders,
\* and its rows are, entry for entry, the builder types of the runs, marked
\* "pass" exactly for the runs that succeeded.
C7_OneRowPerBuilder ==
    review.kind = "results" /\ review.ok =>
        /\ Len(review.rows) = Len(builders)
        /\ BagOf([i \in DOMAIN review.rows |->
                    <<review.rows[i].builderType, review.rows[i].s = "pass">>])
           = BagOf([r \in Launched |-> <<run[r].bt, run[r].ok>>])
        /\ \A i \in DOMAIN review.rows : review.rows[i].s \in {"pass", "failed"}

\* C7 witness: a posted report of two rows, the first failed and the second
\* passed.
C7_Witness ==
    /\ review.kind = "results" /\ review.ok /\ Len(review.rows) = 2
    /\ review.rows[1].s = "failed" /\ review.rows[2].s = "pass"

\* Changes that main has left behind: found before the change under test.
Earlier == {c \in 1..found : c < cur}

\* C8: in poll mode the steps of a change happen in the order notice,
\* fetch, dispatch, report; runs exist only for a change whose notice was
\* posted and whose archive was fetched; a report is sent only for a change
\* whose dispatch returned the complete list; main moves to the next change
\* only after the report was posted; and after a failed step the process has
\* ended and takes no step.
C8_PollOrder ==
    mode = "poll" =>
        /\ reported \subseteq dispatched
        /\ dispatched \subseteq fetched
        /\ fetched \subseteq noticed
        /\ noticed \subseteq Earlier \cup {cur}
        /\ Earlier \subseteq reported
        /\ (\E r \in Runs : run[r].pc \notin {"idle", "done"})
              => cur \in noticed /\ cur \in fetched /\ cur \notin dispatched
        /\ review.kind = "results"
              => review.change \in dispatched /\ Len(results) = Len(builders)
        /\ review.kind # "none" /\ ~review.ok => mpc = "fatal"
        /\ mpc = "fatal" => ~ENABLED Next

\* C8 witness: the second change of a list is being tested, after the first
\* was reported.
C8_Witness ==
    /\ mode = "poll" /\ cur = 2 /\ reported = {1}
    /\ \E r \in Launched : run[r].pc = "exec"

\* C9: in one-shot mode tester.run is called once and no request goes to
\* gerrit: no query, no notice, no report.
C9_OneShotNoReview ==
    mode = "oneshot" =>
        /\ gerritCalls = 0 /\ review = NoReview
        /\ noticed = {} /\ reported = {}
        /\ runCalls <= 1
        /\ mpc \in {"exit", "fatal", "spawn", "wait"} => runCalls = 1
        /\ mpc \in {"run", "spawn", "wait", "exit", "fatal"}

\* C9 witness: one-shot mode has ended after a dispatch with a failed run.
C9_Witness ==
    /\ mode = "oneshot" /\ mpc = "exit"
    /\ \E i \in DOMAIN results : ~results[i].succeeded

\* The body starts with a gzip member header that gzip.NewReader accepts.
ValidGzipHeader(b) == Len(b) >= 10 /\ SubSeq(b, 1, 3) = <<31, 139, 8>>

GzipErrors == {"EOF", "unexpected EOF", "gzip: invalid header"}

\* The exchange reached a response whose body was read.
GotBody == tarResp.reqOK /\ tarResp.doOK /\ tarResp.readOK

\* C10 as stated: a non-200 response yields the fetch error, a 200 response
\* whose body is not a valid gzip stream yields an invalid-archive error, a
\* 200 response with a valid gzip stream returns the bytes received, and
\* every call issues exactly one GET.
C10_Original ==
    tarCalled =>
        /\ tarOut.gets = 1
        /\ tarResp.reqOK /\ tarResp.doOK /\ tarResp.status # StatusOK
              => tarOut.err = "failed to fetch"
        /\ GotBody /\ tarResp.status = StatusOK /\ ~ValidGzipStream(tarResp.body)
              => tarOut.err \in GzipErrors
        /\ GotBody /\ tarResp.status = StatusOK /\ ValidGzipStream(tarResp.body)
              => tarOut.err = "" /\ tarOut.archive = tarResp.body

\* C10 amended: a non-200 response yields the fetch error; a 200 response
\* whose body does not start with a valid gzip header yields an
\* invalid-archive error, which is not the fetch error; a 200 response whose
\* body starts with a valid gzip header returns the bytes received and no
\* error; a call issues one GET, and none when the request cannot be built.
C10_HeaderChecked ==
    tarCalled =>
        /\ tarOut.gets = IF tarResp.reqOK THEN 1 ELSE 0
        /\ tarResp.reqOK /\ tarResp.doOK /\ tarResp.status # StatusOK
              => tarOut.err = "failed to fetch"
        /\ GotBody /\ tarResp.status = StatusOK /\ ~ValidGzipHeader(tarResp.body)
              => tarOut.err \in GzipErrors /\ tarOut.err # "failed to fetch"
        /\ GotBody /\ tarResp.status = StatusOK /\ ValidGzipHeader(tarResp.body)
              => tarOut.err = "" /\ tarOut.archive = tarResp.body

\* C10 witness: a 200 response that holds a gzip header followed by a login
\* page is returned as the archive.
C10_Witness ==
    /\ tarCalled /\ GotBody /\ tarResp.status = StatusOK
    /\ tarResp.body = SubSeq(EmptyGzip, 1, 10) \o HtmlPage
    /\ tarOut.err = "" /\ tarOut.archive = tarResp.body

\* C11: every builder type for which a run is started is a member of
\* allowedBuilders, with the -builders flag given and with the default list.
C11_DispatchedAreAllowed ==
    \A i \in 1..spawned : builders[i] \in allowedBuilders

\* C12: Close on a durable sink returns the outcome of the final flush that
\* this Close set off, never the error of an earlier periodic flush.
C12_CloseReturnsFinalFlush ==
    cpc = "closed" =>
        /\ lw[1].closeRet \in {"nil", "finalerr"}
        /\ lw[1].final # "none" => lw[1].closeRet = lw[1].final

\* C13: a run whose create failed ends failed with an empty log locator,
\* has been in no later stage (bootstrap, upload, sink, execution) and has
\* issued no teardown.
C13_CreateFailureEndsRun ==
    \A r \in Runs :
        run[r].pc \notin {"idle", "create"} /\ run[r].created = 0 =>
            /\ run[r].pc \in {"emit", "done"}
            /\ run[r].failed /\ ~run[r].ok /\ run[r].log = ""
            /\ run[r].closes = 0
            /\ run[r].sink = "none" /\ run[r].sinkCloses = 0
            /\ run[r].writes = 0

C13_Witness ==
    \E r \in Launched : run[r].pc = "done" /\ run[r].created = 0

\* The steps of runTests from one stage to the next: create, bootstrap,
\* the two uploads, the choice of output, the work directory and Exec in
\* this order, each left for the next on success or for the deferred calls
\* on failure; the deferred calls end with c.Close.
StageOrder ==
    {<<"idle", "create">>,
     <<"create", "bootstrap">>, <<"create", "puttar">>,
     <<"create", "teardown">>, <<"create", "emit">>,
     <<"bootstrap", "puttar">>, <<"bootstrap", "teardown">>,
     <<"puttar", "putversion">>, <<"puttar", "teardown">>,
     <<"putversion", "output">>, <<"putversion", "teardown">>,
     <<"output", "workdir">>, <<"output", "teardown">>,
     <<"workdir", "exec">>, <<"workdir", "sinkclose">>, <<"workdir", "teardown">>,
     <<"exec", "sinkclose">>, <<"exec", "teardown">>,
     <<"sinkclose", "teardown">>,
     <<"teardown", "emit">>,
     <<"emit", "done">>}

\* C14: the stages of a run happen in the order create, bootstrap, archive
\* upload, VERSION upload, execute, teardown; a stage is entered only from
\* its predecessor; after the first failing stage no stage but teardown
\* follows; and teardown is the last stage of every run whose create
\* succeeded.
C14_StagesInOrder ==
    [][\A r \in Runs :
          /\ run'[r].pc \notin {run[r].pc, "idle"} =>
                <<run[r].pc, run'[r].pc>> \in StageOrder
          /\ run'[r].failed =>
                run'[r].pc \in {"sinkclose", "teardown", "emit", "done"}
          /\ run[r].pc = "create" /\ run'[r].pc = "emit" => run'[r].created = 0
          /\ run[r].pc = "create" /\ run'[r].pc = "teardown" => run'[r].failed
          /\ run'[r].pc \in {"emit", "done"} =>
                run'[r].closes = run'[r].created]_vars

C14_Witness ==
    /\ \E r \in Launched : run[r].pc = "done" /\ run[r].ok /\ run[r].closes = 1
    /\ \E r \in Launched : /\ run[r].pc = "done" /\ run[r].failed
                           /\ run[r].log = "" /\ run[r].closes = 1

\* C15: the result of a run says succeeded exactly when no stage returned
\* an error and Exec returned neither execErr nor remoteErr; the deferred
\* gcsWriter.Close and c.Close leave the result as it is, whatever they
\* return.
C15_SucceededIffNoError ==
    [][\A r \in Runs :
          /\ run'[r].pc \in {"sinkclose", "teardown", "emit", "done"} =>
                (run'[r].ok <=> ~run'[r].failed)
          /\ run[r].pc \in {"sinkclose", "teardown"} /\ run'[r].pc # "idle" =>
                run'[r].ok = run[r].ok /\ run'[r].log = run[r].log
          /\ run[r].pc = "emit" /\ run'[r].pc = "done" =>
                resultsCh' = Append(resultsCh, [builderType |-> run[r].bt,
                                                logURL |-> run[r].log,
                                                succeeded |-> ~run[r].failed])]_vars

C15_Witness ==
    /\ \E r \in Launched : run[r].pc = "done" /\ run[r].ok /\ run[r].sinkCloses = 1
    /\ \E r \in Launched : run[r].pc = "done" /\ ~run[r].ok /\ run[r].log # ""

\* C19: a gcsWriter that a run created is closed exactly once on every
\* way out of runTests after its creation (c.WorkDir failed, Exec failed,
\* the tests failed, the tests passed), after Exec has stopped writing and
\* before c.Close.
C19_SinkClosedOnce ==
    \A r \in Runs :
        /\ run[r].sink = "none" => run[r].sinkCloses = 0
        /\ run[r].sink = "open" =>
              /\ run[r].pc \in {"workdir", "exec", "sinkclose"}
              /\ run[r].sinkCloses = 0 /\ run[r].closes = 0
        /\ run[r].sink = "closed" =>
              /\ run[r].pc \in {"teardown", "emit", "done"}
              /\ run[r].sinkCloses = 1 /\ run[r].writes = 0
        /\ run[r].writes > 0 => run[r].pc = "exec"

C19_Witness ==
    /\ \E r \in Launched : /\ run[r].pc = "done" /\ run[r].ok
                           /\ run[r].sinkCloses = 1 /\ run[r].closes = 1
    /\ \E r \in Launched : /\ run[r].pc = "done" /\ run[r].failed
                           /\ run[r].sinkCloses = 1 /\ run[r].closes = 1

\* C16: Close stops the flush goroutine: once Close has returned the
\* goroutine takes no step, its ticker sets off no flush and the object is
\* not uploaded again.
C16_FlusherStopsAtClose ==
    [][cpc = "closed" =>
          /\ lw'[1].gpc = lw[1].gpc
          /\ lw'[1].ticks = lw[1].ticks
          /\ lw'[1].obj = lw[1].obj]_vars

\* The positions of the flush goroutine between mu.Lock and mu.Unlock.
Flushing == {"stop_write", "stop_send", "tick_write", "tick_send"}

\* C17 as claimed: mu is never held while an upload is in progress.
C17_Original ==
    lw[1].gpc \in {"stop_write", "tick_write"} => lw[1].mu = "free"

\* C17: mu is held by the flush goroutine for the whole of a flush, from
\* before the upload starts until its result has been dealt with, and a
\* Write appends only while mu is free: no byte is appended while an
\* upload is in progress.
C17_LockHeldAcrossFlush ==
    [][/\ lw'[1].mu = "flusher" <=> lw'[1].gpc \in Flushing
       /\ lw'[1].buf # lw[1].buf =>
             /\ lw[1].mu = "free" /\ lw[1].gpc \notin Flushing
             /\ lw'[1].mu = "free"]_vars

C17_Witness ==
    /\ cpc = "writing" /\ Len(lw[1].buf) = 1
    /\ lw[1].gpc = "tick_write" /\ lw[1].mu = "flusher"

IsPrefix(a, b) == Len(a) <= Len(b) /\ SubSeq(b, 1, Len(a)) = a

\* C18: the object exists, empty, before the buffer holds any output; a
\* flush that changes the object makes it the whole buffer of that moment;
\* the object is always a prefix of the buffer and never gets shorter.
C18_ObjectIsPrefixOfBuffer ==
    [][/\ lw'[1].open => lw'[1].exists
       /\ lw'[1].buf # <<>> => lw'[1].exists
       /\ ~lw[1].exists /\ lw'[1].exists => lw'[1].obj = <<>> /\ lw'[1].buf = <<>>
       /\ IsPrefix(lw'[1].obj, lw'[1].buf)
       /\ Len(lw'[1].obj) >= Len(lw[1].obj)
       /\ lw'[1].obj # lw[1].obj => lw'[1].obj = lw[1].buf]_vars

C18_Witness ==
    /\ lw[1].obj = <<1>> /\ lw[1].buf = <<1, 2>>
    /\ lw[1].ticks = MaxTicks

\* A step of the flush goroutine after its select has taken a case.
FlusherStep ==
    GStopWrite(1) \/ GStopSend(1) \/ GTickWrite(1) \/ GTickSend(1)

\* C20: the flush goroutine never blocks while it holds mu: as long as
\* Exec may still write (Close has not been called), a goroutine that
\* holds mu can go on to release it, so that every Write returns.
C20_FlusherNeverBlocksHoldingLock ==
    cpc = "writing" /\ lw[1].mu = "flusher" => ENABLED FlusherStep

\* The stored group has been replaced by the empty group although the
\* load did not prune it to nothing.
Overwritten ==
    /\ grpFile = Encoded(<<>>)
    /\ \/ ~grpStored.decodable
       \/ \E i \in DOMAIN grpStored.instances :
             grpAlive[grpStored.instances[i]] # "gone"

\* C21: createGroup with the name of a stored group returns "already
\* exists" and does not replace the stored group by an empty one, whatever
\* loading the stored group came to.
C21_ExistingGroupKept ==
    grpRet # "none" /\ grpStored.present =>
        grpRet = "already exists" /\ ~Overwritten

====
